---- MODULE Spec2Model ----
(***************************************************************************)
(* A model of the whatsmeow client core: the inbound dispatcher            *)
(* (handleFrame, the handler queue and its consumer, Connect/Disconnect,   *)
(* the response waiter table) and the app-state sync (FetchAppState,       *)
(* dispatchAppState).                                                      *)
(*                                                                         *)
(* FetchAppState reaches the dispatcher through the IQ it sends            *)
(* (fetchAppStatePatches calls sendIQ, which needs cli.socket, takes a     *)
(* stanza ID, registers a response waiter and waits for handleFrame to     *)
(* deliver the response), so all specifications run over the same          *)
(* variables and differ in the operations they explore:                    *)
(*   Spec          the dispatcher with repeated Connect calls and a         *)
(*                 Disconnect call, without IQs;                            *)
(*   LiveSpec      Spec with the scheduler's fairness;                      *)
(*   IQSpec        the dispatcher with one Connect call, concurrent         *)
(*                 Disconnect calls and every sendIQ caller;                *)
(*   AppSpec       one FetchAppState call with Connect, Disconnect and      *)
(*                 the response frames of its IQs;                          *)
(*   ConcSpec      concurrent FetchAppState calls, likewise;                *)
(*   ConcLiveSpec  ConcSpec with fairness;                                  *)
(*   RouteSpec     dispatchAppState on its own.                             *)
(***************************************************************************)
EXTENDS Integers, Sequences, FiniteSets, TLC

(***************************************************************************)
(* Bounds of the model.                                                    *)
(***************************************************************************)
\* Capacity of the handler queue. The source sets 2048 (part_000:51); the
\* model keeps the name and explores a small capacity.
handlerQueueSize == 2
\* Number of inbound frames handleFrame receives in one behaviour.
MaxFrames == 3
\* Number of sendIQ calls (and so of stanza IDs) in one behaviour.
MaxIQ == 2
\* Number of successful Connect calls (sessions) in one behaviour.
MaxSessions == 2
\* Number of goroutines that may be inside Disconnect at once (each may
\* call it again once it has returned).
MaxDisconnects == 2
\* Number of FetchAppState calls (each on a goroutine of its own).
MaxCalls == 2
\* Number of patches in one patch list.
MaxPatches == 2
\* Number of patch lists the server answers one call with (the last one
\* has has_more = false).
MaxBatches == 2
\* The LTHash is modelled by a number modulo HashMod.
HashMod == 3
\* Longest mutation index dispatchAppState is applied to on its own.
MaxIndexLen == 5

(***************************************************************************)
(* Dispatcher state.                                                       *)
(***************************************************************************)
VARIABLES
    socket,            \* cli.socket: 0 is nil, s > 0 the socket of session s
    nSessions,         \* sessions established so far (handshakes that succeeded)
    ctxDone,           \* sessions whose socket is closed and context cancelled
    connPc,            \* each Connect call: "idle", "handshaken", "onframe", "keepalive", "done"
    onFrame,           \* sessions whose socket has OnFrame set to handleFrame
    panicked,          \* a nil dereference has ended the process
    discPc,            \* each goroutine in Disconnect: "idle", "tested", "closed"
    discSock,          \* the socket it read at line 106, then the one it closed (0: nil)
    disconnected,      \* sessions closed by a Disconnect call that has returned
    consumerPc,        \* the handlerQueueLoop goroutine each Connect call started
    consumerCtx,       \* the session whose context that goroutine was given (0: none)
    consumerNode,      \* the node that goroutine holds (0: none)
    keepAlivePc,       \* the keepAliveLoop goroutine each Connect call started
    keepAliveCtx,      \* the session whose context that goroutine was given (0: none)
    handlerQueue,      \* buffer of the channel cli.handlerQueue (node numbers)
    sendq,             \* goroutines blocked in "cli.handlerQueue <- node", in arrival order
    spawned,           \* overflow goroutines started and not yet run
    nReceived,         \* decoded inbound nodes so far; node n is the n-th received
    lastFrame,         \* the node handleFrame handled last, and what it did with it
    handled,           \* node numbers in the order their tag handler was invoked
    reachedCapacity,   \* the queue buffer has been full at some point
    responseWaiters,   \* cli.responseWaiters: stanza id -> waiter
    idCounter,         \* cli.idCounter
    iqPc,              \* each sendIQ call: "idle", "waiting", "got", "cancelled"
    iqID,              \* the stanza id the call generated (0: none yet)
    iqGot              \* the nodes delivered through the call's channel

\* What Connect sets up.
sessionVars == <<nSessions, connPc, onFrame, consumerCtx, keepAliveCtx>>

\* What the handlers of frames and the goroutines of a session leave alone.
connVars == <<sessionVars, panicked>>

\* The goroutines inside Disconnect.
discVars == <<discPc, discSock, disconnected>>

\* What sendIQ leaves alone, unless the send ends the process.
sendVars == <<socket, ctxDone, sessionVars, discVars, consumerPc, consumerNode,
              keepAlivePc, handlerQueue, sendq, spawned, nReceived, lastFrame,
              handled, reachedCapacity>>

\* What the delivery of a response leaves alone.
frameVars == <<sendVars, panicked>>

dispVars == <<socket, ctxDone, connVars, discVars, consumerPc, consumerNode, keepAlivePc,
              handlerQueue, sendq, spawned, nReceived, lastFrame, handled, reachedCapacity,
              responseWaiters, idCounter, iqPc, iqID, iqGot>>

(***************************************************************************)
(* App-state sync state.                                                   *)
(***************************************************************************)
VARIABLES
    emitOnFullSync,    \* the package variable EmitAppStateEventsOnFullSync
    wired,             \* the nullable sub-stores the host wired in (cli.Store.*)
    storeFails,        \* the device store's writes (Put..., Save) return an error
    appStore,          \* cli.Store.AppState: name -> persisted (version, hash)
    appStateSyncLock,  \* cli.appStateSyncLock: 0 is free, c > 0 held by call c
    fetchPc,           \* each FetchAppState call: "idle", "blocked", "locked", "fetch",
                       \* "waiting", "dispatch", "done"
    fetchArgs,         \* its arguments (name, fullSync, onlyIfNotSynced)
    fetchFull,         \* its local fullSync (set when the stored version is 0)
    fetchRead,         \* its locals version, hash as GetAppStateVersion returned them
    fetchIQs,          \* IQs it has sent (fetchAppStatePatches calls)
    fetchState,        \* its local HashState
    fetchHasMore,      \* its local hasMore
    fetchPending,      \* mutations of the current batch not yet dispatched
    fetchBatches,      \* batches it has fetched
    fetchResult,       \* "none" while running, then how it ended
    fetchEvtCount,     \* per-mutation events it has emitted (AppState and typed)
    fetchComplete,     \* AppStateSyncComplete events it has emitted
    fetchBefore,       \* persisted (version, hash) when its current batch started
    fetchVerified,     \* patches of its current batch verified and committed
    fetchFailed,       \* the patch list whose decoding failed (<<>>: none)
    fetchAfter,        \* persisted (version, hash) when it returned
    lastDispatch       \* the last dispatchAppState call and what it did

appVars == <<emitOnFullSync, wired, storeFails, appStore, appStateSyncLock, fetchPc,
             fetchArgs, fetchFull, fetchRead, fetchIQs, fetchState, fetchHasMore, fetchPending, fetchBatches,
             fetchResult, fetchEvtCount, fetchComplete, fetchBefore, fetchVerified, fetchFailed,
             fetchAfter, lastDispatch>>

Sessions == 1..MaxSessions
Disconnectors == 1..MaxDisconnects
FetchCalls == 1..MaxCalls
\* The callers of sendIQ other than FetchAppState.
Callers == 1..MaxIQ
\* FetchAppState call c as a caller of sendIQ.
FetchCaller(c) == MaxIQ + c
AllCallers == 1..(MaxIQ + MaxCalls)

\* Tags of inbound nodes the model feeds in: the stream end, a tag of the
\* handler table (the tag of IQ responses too) and a tag that has no handler.
Tags == {"xmlstreamend", "iq", "presence"}

\* cli.nodeHandlers: the tags with a handler (fixed at construction).
nodeHandlers == {"message", "receipt", "notification", "success", "stream:error", "iq"}

\* The id attribute of an inbound node: 0 is "no id attribute", the others
\* are the stanza ids generated so far (an id never generated has no waiter
\* and is routed like a node without id).
NodeIDs == 0..idCounter

\* A run-time failure in a goroutine (a nil dereference in Connect,
\* Disconnect or sendNode, an index out of range in dispatchAppState) ends
\* the process.
Crashed == panicked \/ \E c \in FetchCalls : fetchResult[c] = "panic"

(***************************************************************************)
(* NewClient: no socket, no goroutine, empty queue and waiter table.       *)
(***************************************************************************)
DispInit ==
    /\ socket = 0
    /\ nSessions = 0
    /\ ctxDone = {}
    /\ connPc = [k \in Sessions |-> "idle"]
    /\ onFrame = {}
    /\ panicked = FALSE
    /\ discPc = [d \in Disconnectors |-> "idle"]
    /\ discSock = [d \in Disconnectors |-> 0]
    /\ disconnected = {}
    /\ consumerPc = [k \in Sessions |-> "none"]
    /\ consumerCtx = [k \in Sessions |-> 0]
    /\ consumerNode = [k \in Sessions |-> 0]
    /\ keepAlivePc = [k \in Sessions |-> "none"]
    /\ keepAliveCtx = [k \in Sessions |-> 0]
    /\ handlerQueue = <<>>
    /\ sendq = <<>>
    /\ spawned = {}
    /\ nReceived = 0
    /\ lastFrame = [tag |-> "", id |-> 0, session |-> 0, hadWaiter |-> FALSE, disp |-> {}]
    /\ handled = <<>>
    /\ reachedCapacity = FALSE
    /\ responseWaiters = [i \in {} |-> 0]
    /\ idCounter = 0
    /\ iqPc = [c \in AllCallers |-> "idle"]
    /\ iqID = [c \in AllCallers |-> 0]
    /\ iqGot = [c \in AllCallers |-> {}]

(***************************************************************************)
(* Connect, call k. The code tests nothing before it dials, so a call may   *)
(* be made with a socket open and while another call is in progress (the    *)
(* commands of mdtest run on goroutines of their own). A failed dial or     *)
(* handshake returns the error and changes nothing. The k-th call that is   *)
(* made is the one whose handshake yields session k.                        *)
(***************************************************************************)
\* Lines 90 to 97: dial and handshake. doHandshake (not among the source
\* files) leaves the new NoiseSocket in cli.socket; the socket that was
\* there is neither closed nor its context cancelled.
ConnectHandshake(k) ==
    /\ ~Crashed
    /\ connPc[k] = "idle"
    /\ \A d \in Sessions : d < k => connPc[d] # "idle"
    /\ \E outcome \in {"ok", "connectError", "handshakeError"} :
          IF outcome = "ok"
          THEN /\ nSessions' = nSessions + 1
               /\ socket' = k
               /\ connPc' = [connPc EXCEPT ![k] = "handshaken"]
               /\ UNCHANGED <<onFrame, panicked, consumerCtx, keepAliveCtx>>
          ELSE UNCHANGED <<socket, connVars>>
    /\ UNCHANGED <<ctxDone, consumerPc, consumerNode, keepAlivePc, handlerQueue, sendq,
                   spawned, nReceived, lastFrame, handled, reachedCapacity,
                   responseWaiters, idCounter, iqPc, iqID, iqGot>>
    /\ UNCHANGED discVars
    /\ UNCHANGED appVars

\* Line 98: cli.socket.OnFrame = cli.handleFrame. cli.socket is read again,
\* under no lock: a Disconnect in between has made it nil, another Connect
\* has made it the other call's socket.
ConnectSetOnFrame(k) ==
    /\ ~Crashed
    /\ connPc[k] = "handshaken"
    /\ IF socket = 0
       THEN /\ panicked' = TRUE
            /\ UNCHANGED <<connPc, onFrame>>
       ELSE /\ onFrame' = onFrame \cup {socket}
            /\ connPc' = [connPc EXCEPT ![k] = "onframe"]
            /\ UNCHANGED panicked
    /\ UNCHANGED <<socket, ctxDone, nSessions, consumerCtx, keepAliveCtx, consumerPc,
                   consumerNode, keepAlivePc, handlerQueue, sendq, spawned, nReceived,
                   lastFrame, handled, reachedCapacity, responseWaiters, idCounter,
                   iqPc, iqID, iqGot>>
    /\ UNCHANGED discVars
    /\ UNCHANGED appVars

\* Line 99: go cli.keepAliveLoop(cli.socket.Context()).
ConnectStartKeepAlive(k) ==
    /\ ~Crashed
    /\ connPc[k] = "onframe"
    /\ IF socket = 0
       THEN /\ panicked' = TRUE
            /\ UNCHANGED <<connPc, keepAlivePc, keepAliveCtx>>
       ELSE /\ keepAlivePc' = [keepAlivePc EXCEPT ![k] = "running"]
            /\ keepAliveCtx' = [keepAliveCtx EXCEPT ![k] = socket]
            /\ connPc' = [connPc EXCEPT ![k] = "keepalive"]
            /\ UNCHANGED panicked
    /\ UNCHANGED <<socket, ctxDone, nSessions, onFrame, consumerCtx, consumerPc,
                   consumerNode, handlerQueue, sendq, spawned, nReceived, lastFrame,
                   handled, reachedCapacity, responseWaiters, idCounter, iqPc, iqID,
                   iqGot>>
    /\ UNCHANGED discVars
    /\ UNCHANGED appVars

\* Line 100: go cli.handlerQueueLoop(cli.socket.Context()), and return nil.
ConnectStartConsumer(k) ==
    /\ ~Crashed
    /\ connPc[k] = "keepalive"
    /\ IF socket = 0
       THEN /\ panicked' = TRUE
            /\ UNCHANGED <<connPc, consumerPc, consumerCtx>>
       ELSE /\ consumerPc' = [consumerPc EXCEPT ![k] = "select"]
            /\ consumerCtx' = [consumerCtx EXCEPT ![k] = socket]
            /\ connPc' = [connPc EXCEPT ![k] = "done"]
            /\ UNCHANGED panicked
    /\ UNCHANGED <<socket, ctxDone, nSessions, onFrame, keepAliveCtx, consumerNode,
                   keepAlivePc, handlerQueue, sendq, spawned, nReceived, lastFrame,
                   handled, reachedCapacity, responseWaiters, idCounter, iqPc, iqID,
                   iqGot>>
    /\ UNCHANGED discVars
    /\ UNCHANGED appVars

(***************************************************************************)
(* A method called on a nil *NoiseSocket whose body is not among the source *)
(* files (Close, SendFrame): it returns without effect if it tests its      *)
(* receiver, it ends the process if it dereferences it.                     *)
(***************************************************************************)
NilReceiverOutcomes == {"returns", "panic"}

(***************************************************************************)
(* Disconnect, on goroutine d: closes the socket, which cancels the session *)
(* context, and forgets it. Nothing else is touched, nothing is waited for  *)
(* and no lock is held: the three lines interleave with Connect and with    *)
(* other Disconnect calls.                                                  *)
(***************************************************************************)
SocketClose(s) == ctxDone \cup {s}

\* Line 106: if cli.socket != nil. With no socket the call returns.
DisconnectTest(d) ==
    /\ ~Crashed
    /\ discPc[d] = "idle"
    /\ \A e \in Disconnectors : e < d => discPc[e] # "idle"
    /\ IF socket # 0
       THEN /\ discPc' = [discPc EXCEPT ![d] = "tested"]
            /\ discSock' = [discSock EXCEPT ![d] = socket]
       ELSE UNCHANGED <<discPc, discSock>>
    /\ UNCHANGED <<socket, ctxDone, connVars, disconnected, consumerPc, consumerNode,
                   keepAlivePc, handlerQueue, sendq, spawned, nReceived, lastFrame,
                   handled, reachedCapacity, responseWaiters, idCounter, iqPc, iqID,
                   iqGot>>
    /\ UNCHANGED appVars

\* Line 107: cli.socket.Close(). The field is read under no lock: the call
\* is made on the socket line 106 read or on the one that is there now.
DisconnectClose(d) ==
    /\ ~Crashed
    /\ discPc[d] = "tested"
    /\ \E target \in {discSock[d], socket} :
          IF target # 0
          THEN /\ ctxDone' = SocketClose(target)
               /\ discSock' = [discSock EXCEPT ![d] = target]
               /\ discPc' = [discPc EXCEPT ![d] = "closed"]
               /\ UNCHANGED panicked
          ELSE \E outcome \in NilReceiverOutcomes :
                  IF outcome = "panic"
                  THEN /\ panicked' = TRUE
                       /\ UNCHANGED <<ctxDone, discSock, discPc>>
                  ELSE /\ discSock' = [discSock EXCEPT ![d] = 0]
                       /\ discPc' = [discPc EXCEPT ![d] = "closed"]
                       /\ UNCHANGED <<ctxDone, panicked>>
    /\ UNCHANGED <<socket, sessionVars, disconnected, consumerPc, consumerNode,
                   keepAlivePc, handlerQueue, sendq, spawned, nReceived, lastFrame,
                   handled, reachedCapacity, responseWaiters, idCounter, iqPc, iqID,
                   iqGot>>
    /\ UNCHANGED appVars

\* Line 108: cli.socket = nil, whatever is there by now, and return.
DisconnectSetNil(d) ==
    /\ ~Crashed
    /\ discPc[d] = "closed"
    /\ socket' = 0
    /\ disconnected' = disconnected \cup ({discSock[d]} \ {0})
    /\ discPc' = [discPc EXCEPT ![d] = "idle"]
    /\ discSock' = [discSock EXCEPT ![d] = 0]
    /\ UNCHANGED <<ctxDone, connVars, consumerPc, consumerNode, keepAlivePc,
                   handlerQueue, sendq, spawned, nReceived, lastFrame, handled,
                   reachedCapacity, responseWaiters, idCounter, iqPc, iqID, iqGot>>
    /\ UNCHANGED appVars

(***************************************************************************)
(* The response waiter table (waitResponse, cancelResponse and              *)
(* receiveResponse are not among the source files; they follow the spec:    *)
(* a mutex-guarded map from stanza id to a single-shot channel, the waiter  *)
(* removed when its node is delivered or its caller gives up).              *)
(***************************************************************************)
\* The socket in cli.socket takes writes: it is there and is not closed (a
\* write on a closed socket fails with a transport error).
SocketOpen == socket # 0 /\ socket \notin ctxDone

\* next stanza id: the counter is incremented atomically, the prefix is fixed.
GenerateRequestID == idCounter + 1

WaitersWith(id, w) ==
    [i \in DOMAIN responseWaiters \cup {id} |->
        IF i = id THEN w ELSE responseWaiters[i]]

WaitersWithout(id) ==
    [i \in DOMAIN responseWaiters \ {id} |-> responseWaiters[i]]

WaitersKept(id) == responseWaiters

\* receiveResponse, on a node whose id has a waiter: the waiter is removed
\* under the lock before the node is sent to its channel.
WaitersAfterDelivery(id) == WaitersWithout(id)

\* receiveResponse's result: the node has an id attribute and a waiter for it.
ReceiveResponseOK(id) == id # 0 /\ id \in DOMAIN responseWaiters

\* sendIQ up to the point where it waits: generate the id, register the
\* waiter, send the node on cli.socket (sendNode, lines 160 to 168, which
\* does not test cli.socket before it calls SendFrame on it).
SendIQ(c) ==
    /\ ~Crashed
    /\ iqPc[c] = "idle"
    /\ \A d \in Callers : d < c => iqPc[d] # "idle"
    /\ idCounter' = GenerateRequestID
    /\ iqID' = [iqID EXCEPT ![c] = GenerateRequestID]
    /\ IF SocketOpen
       THEN /\ responseWaiters' =
                   WaitersWith(GenerateRequestID, [caller |-> c, session |-> socket])
            /\ iqPc' = [iqPc EXCEPT ![c] = "waiting"]
            /\ UNCHANGED panicked
       ELSE IF socket # 0
       THEN \* the write fails: the error is returned, the waiter removed again
            /\ iqPc' = [iqPc EXCEPT ![c] = "cancelled"]
            /\ UNCHANGED <<responseWaiters, panicked>>
       ELSE \* line 167 on a nil socket
            /\ UNCHANGED responseWaiters
            /\ \E outcome \in NilReceiverOutcomes :
                  IF outcome = "panic"
                  THEN /\ panicked' = TRUE
                       /\ UNCHANGED iqPc
                  ELSE \* the error is returned, the waiter removed again
                       /\ iqPc' = [iqPc EXCEPT ![c] = "cancelled"]
                       /\ UNCHANGED panicked
    /\ UNCHANGED <<sendVars, iqGot>>
    /\ UNCHANGED appVars

\* sendIQ giving up (timeout or cancelled context): the waiter is removed.
CancelIQ(c) ==
    /\ ~Crashed
    /\ iqPc[c] = "waiting"
    /\ responseWaiters' = WaitersWithout(iqID[c])
    /\ iqPc' = [iqPc EXCEPT ![c] = "cancelled"]
    /\ UNCHANGED <<socket, ctxDone, connVars, consumerPc, consumerNode, keepAlivePc,
                   handlerQueue, sendq, spawned, nReceived, lastFrame, handled, reachedCapacity,
                   idCounter, iqID, iqGot>>
    /\ UNCHANGED discVars
    /\ UNCHANGED appVars

(***************************************************************************)
(* handleFrame, for a frame that unpacks and decodes to a node (tag, id),    *)
(* called by the reader of an open socket s that has OnFrame set.           *)
(***************************************************************************)
\* The if / else-if chain of handleFrame: what is done with the node.
DisposalFallThrough(tag, id) ==
    (IF tag = "xmlstreamend" THEN {"streamend"} ELSE {})
    \cup (IF ReceiveResponseOK(id) THEN {"waiter"} ELSE {})
    \cup (IF tag \in nodeHandlers
          THEN (IF Len(handlerQueue) < handlerQueueSize THEN {"queued"} ELSE {"overflow"})
          ELSE {"dropped"})

Disposal(tag, id) ==
    IF tag = "xmlstreamend" THEN {"streamend"}
    ELSE IF ReceiveResponseOK(id) THEN {"waiter"}
    ELSE IF tag \in nodeHandlers
         THEN (IF Len(handlerQueue) < handlerQueueSize THEN {"queued"} ELSE {"overflow"})
         ELSE {"dropped"}

HandleFrame(s, tag, id) ==
    /\ ~Crashed
    /\ s \in onFrame \ ctxDone
    /\ nReceived < MaxFrames
    /\ LET n == nReceived + 1
           d == Disposal(tag, id)
       IN  /\ nReceived' = n
           /\ lastFrame' = [tag |-> tag, id |-> id, session |-> s,
                            hadWaiter |-> ReceiveResponseOK(id), disp |-> d]
           /\ IF "waiter" \in d
              THEN LET c == responseWaiters[id].caller
                   IN  /\ responseWaiters' = WaitersAfterDelivery(id)
                       /\ iqGot' = [iqGot EXCEPT ![c] = @ \cup {n}]
                       /\ iqPc' = [iqPc EXCEPT ![c] = "got"]
              ELSE UNCHANGED <<responseWaiters, iqGot, iqPc>>
           /\ IF "queued" \in d
              THEN /\ handlerQueue' = Append(handlerQueue, n)
                   /\ reachedCapacity' =
                          (reachedCapacity \/ Len(handlerQueue) + 1 >= handlerQueueSize)
              ELSE UNCHANGED <<handlerQueue, reachedCapacity>>
           /\ IF "overflow" \in d
              THEN spawned' = spawned \cup {n}
              ELSE UNCHANGED spawned
    /\ UNCHANGED <<socket, ctxDone, connVars, consumerPc, consumerNode, keepAlivePc,
                   sendq, handled, idCounter, iqID>>
    /\ UNCHANGED discVars
    /\ UNCHANGED appVars

(***************************************************************************)
(* The detached goroutine of the overflow branch: "cli.handlerQueue <-      *)
(* node". Run with room in the buffer it enqueues; otherwise it parks in     *)
(* the channel's queue of blocked senders.                                  *)
(***************************************************************************)
OverflowSend(n) ==
    /\ ~Crashed
    /\ n \in spawned
    /\ spawned' = spawned \ {n}
    /\ IF Len(handlerQueue) < handlerQueueSize
       THEN /\ handlerQueue' = Append(handlerQueue, n)
            /\ reachedCapacity' =
                   (reachedCapacity \/ Len(handlerQueue) + 1 >= handlerQueueSize)
            /\ UNCHANGED sendq
       ELSE /\ sendq' = Append(sendq, n)
            /\ UNCHANGED <<handlerQueue, reachedCapacity>>
    /\ UNCHANGED <<socket, ctxDone, connVars, consumerPc, consumerNode, keepAlivePc,
                   nReceived, lastFrame, handled, responseWaiters, idCounter, iqPc, iqID, iqGot>>
    /\ UNCHANGED discVars
    /\ UNCHANGED appVars

(***************************************************************************)
(* The handlerQueueLoop goroutine that Connect call s started.              *)
(***************************************************************************)
\* case node := <-cli.handlerQueue. A receive from a full buffer with blocked
\* senders moves the first blocked sender's node into the buffer.
ConsumerReceive(s) ==
    /\ ~Crashed
    /\ consumerPc[s] = "select"
    /\ handlerQueue # <<>>
    /\ consumerNode' = [consumerNode EXCEPT ![s] = Head(handlerQueue)]
    /\ consumerPc' = [consumerPc EXCEPT ![s] = "received"]
    /\ IF sendq # <<>>
       THEN /\ handlerQueue' = Append(Tail(handlerQueue), Head(sendq))
            /\ sendq' = Tail(sendq)
       ELSE /\ handlerQueue' = Tail(handlerQueue)
            /\ UNCHANGED sendq
    /\ UNCHANGED <<socket, ctxDone, connVars, keepAlivePc, spawned, nReceived, lastFrame, handled,
                   reachedCapacity, responseWaiters, idCounter, iqPc, iqID, iqGot>>
    /\ UNCHANGED discVars
    /\ UNCHANGED appVars

\* cli.nodeHandlers[node.Tag](node): the handler is entered ...
ConsumerInvoke(s) ==
    /\ ~Crashed
    /\ consumerPc[s] = "received"
    /\ consumerPc' = [consumerPc EXCEPT ![s] = "handling"]
    /\ handled' = Append(handled, consumerNode[s])
    /\ UNCHANGED <<socket, ctxDone, connVars, consumerNode, keepAlivePc, handlerQueue,
                   sendq, spawned, nReceived, lastFrame, reachedCapacity, responseWaiters,
                   idCounter, iqPc, iqID, iqGot>>
    /\ UNCHANGED discVars
    /\ UNCHANGED appVars

\* ... and returns, and the loop is back at its select.
ConsumerReturn(s) ==
    /\ ~Crashed
    /\ consumerPc[s] = "handling"
    /\ consumerPc' = [consumerPc EXCEPT ![s] = "select"]
    /\ consumerNode' = [consumerNode EXCEPT ![s] = 0]
    /\ UNCHANGED <<socket, ctxDone, connVars, keepAlivePc, handlerQueue, sendq,
                   spawned, nReceived, lastFrame, handled, reachedCapacity, responseWaiters,
                   idCounter, iqPc, iqID, iqGot>>
    /\ UNCHANGED discVars
    /\ UNCHANGED appVars

\* case <-ctx.Done(): return. With a node ready as well, select takes either.
ConsumerExit(s) ==
    /\ ~Crashed
    /\ consumerPc[s] = "select"
    /\ consumerCtx[s] \in ctxDone
    /\ consumerPc' = [consumerPc EXCEPT ![s] = "done"]
    /\ UNCHANGED <<socket, ctxDone, connVars, consumerNode, keepAlivePc, handlerQueue,
                   sendq, spawned, nReceived, lastFrame, handled, reachedCapacity, responseWaiters,
                   idCounter, iqPc, iqID, iqGot>>
    /\ UNCHANGED discVars
    /\ UNCHANGED appVars

\* The keepAliveLoop that Connect call s started returns once its context
\* is cancelled.
KeepAliveExit(s) ==
    /\ ~Crashed
    /\ keepAlivePc[s] = "running"
    /\ keepAliveCtx[s] \in ctxDone
    /\ keepAlivePc' = [keepAlivePc EXCEPT ![s] = "done"]
    /\ UNCHANGED <<socket, ctxDone, connVars, consumerPc, consumerNode, handlerQueue,
                   sendq, spawned, nReceived, lastFrame, handled, reachedCapacity, responseWaiters,
                   idCounter, iqPc, iqID, iqGot>>
    /\ UNCHANGED discVars
    /\ UNCHANGED appVars


(***************************************************************************)
(* App-state sync: data.                                                   *)
(***************************************************************************)
\* Two of the five collection names.
Names == {"regular", "critical_block"}

\* What GetAppStateVersion returns for a collection with no persisted state.
EmptyState == [version |-> 0, hash |-> 0]

\* The locals version, hash of a call before line 37 has assigned them.
NotRead == [version |-> -1, hash |-> 0]

\* Mutations the server sends: SET mutations with a typed event and a store
\* write (mute, setting_pushName), with a typed event only (star), with an
\* index too short (star) or empty, and a REMOVE.
MutationSamples ==
    { [op |-> "SET", index |-> <<"mute", "jid">>],
      [op |-> "REMOVE", index |-> <<"mute", "jid">>],
      [op |-> "SET", index |-> <<"star", "chat", "msg">>],
      [op |-> "SET", index |-> <<"star", "chat", "msg", "1", "0">>],
      [op |-> "SET", index |-> <<"setting_pushName">>],
      [op |-> "SET", index |-> <<>>] }

\* A patch: whether its MACs and its LTHash verify, and its mutations. A
\* patch that does not verify is one case whatever it carries.
Patches ==
    {[valid |-> FALSE, mutations |-> <<>>]}
    \cup {[valid |-> TRUE, mutations |-> <<m>>] : m \in MutationSamples}

PatchLists == UNION {[1..k -> Patches] : k \in 0..MaxPatches}

\* The patch lists fed to concurrent calls: one patch that fails
\* verification, one patch with a SET mutation.
SmallPatchLists ==
    { <<[valid |-> FALSE, mutations |-> <<>>]>>,
      <<[valid |-> TRUE, mutations |-> <<[op |-> "SET", index |-> <<"mute", "jid">>]>>]>> }

(***************************************************************************)
(* appstate.Processor.DecodePatches (not among the source files; it         *)
(* follows the spec, 4.F steps 4 to 6: per patch, verify, advance the       *)
(* in-memory HashState, accumulate the mutations, persist the new           *)
(* (version, hash)).                                                        *)
(***************************************************************************)
UpdateHash(hash, patch) == (hash + Len(patch.mutations) + 1) % HashMod

NextHashState(state, patch) ==
    [version |-> state.version + 1, hash |-> UpdateHash(state.hash, patch)]

VerifyPatch(patch) == patch.valid

\* Step 6, after each patch: what is persisted for the collection, given
\* what was persisted and the HashState the patch has led to.
PersistNothing(stored, state) == stored

PersistAfterPatch(stored, state) == state

RECURSIVE DecodeFrom(_, _, _, _, _)
DecodeFrom(patches, i, state, muts, stored) ==
    IF i > Len(patches)
    THEN [err |-> FALSE, state |-> state, mutations |-> muts, stored |-> stored,
          verified |-> i - 1]
    ELSE IF ~VerifyPatch(patches[i])
    THEN [err |-> TRUE, state |-> state, mutations |-> muts, stored |-> stored,
          verified |-> i - 1]
    ELSE DecodeFrom(patches, i + 1, NextHashState(state, patches[i]),
                    muts \o patches[i].mutations,
                    PersistAfterPatch(stored, NextHashState(state, patches[i])))

\* stored: the persisted (version, hash) of the collection before the call.
DecodePatches(patches, state, stored) == DecodeFrom(patches, 1, state, <<>>, stored)

(***************************************************************************)
(* dispatchAppState(mutation, dispatchEvts): the events it emits, the       *)
(* store writes it makes, and whether it fails at run time.                 *)
(***************************************************************************)
\* The switch on mutation.Index[0]: the typed event ("" for none), the store
\* writes, and whether the case returns early.
RouteMutationNowhere(index) == [event |-> "", return |-> FALSE, writes |-> <<>>]

RouteMutation(index) ==
    LET kind == index[1]
        chat == IF "ChatSettings" \in wired THEN 1 ELSE 0
    IN  CASE kind = "mute" ->
                [event |-> "Mute", return |-> FALSE,
                 writes |-> SubSeq(<<"PutMutedUntil">>, 1, chat)]
          [] kind = "pin_v1" ->
                [event |-> "Pin", return |-> FALSE,
                 writes |-> SubSeq(<<"PutPinned">>, 1, chat)]
          [] kind = "archive" ->
                [event |-> "Archive", return |-> FALSE,
                 writes |-> SubSeq(<<"PutArchived">>, 1, chat)]
          [] kind = "contact" ->
                [event |-> "Contact", return |-> FALSE,
                 writes |-> IF "Contacts" \in wired THEN <<"PutContactName">> ELSE <<>>]
          [] kind = "star" ->
                IF Len(index) < 5
                THEN [event |-> "", return |-> TRUE, writes |-> <<>>]
                ELSE [event |-> "Star", return |-> FALSE, writes |-> <<>>]
          [] kind = "deleteMessageForMe" ->
                IF Len(index) < 5
                THEN [event |-> "", return |-> TRUE, writes |-> <<>>]
                ELSE [event |-> "DeleteForMe", return |-> FALSE, writes |-> <<>>]
          [] kind = "setting_pushName" ->
                [event |-> "PushNameSetting", return |-> FALSE,
                 writes |-> <<"PushName", "Save">>]
          [] kind = "setting_unarchiveChats" ->
                [event |-> "UnarchiveChatsSetting", return |-> FALSE, writes |-> <<>>]
          [] OTHER ->
                [event |-> "", return |-> FALSE, writes |-> <<>>]

\* Line 71: only SET mutations are applied.
AppliesAnyOp(mutation) == TRUE

Applies(mutation) == mutation.op = "SET"

\* A store write that returns an error: the error is logged (lines 150 to
\* 152 and 156 to 158) and nothing else depends on it.
StoreWriteFailed(writes) == storeFails /\ writes # <<>>

\* Line 159: the typed event is emitted when events are on and the switch
\* has set one (a case that returned early never gets here).
EmitsTypedIfStored(dispatchEvts, r) ==
    dispatchEvts /\ ~r.return /\ r.event # "" /\ ~StoreWriteFailed(r.writes)

EmitsTyped(dispatchEvts, r) == dispatchEvts /\ ~r.return /\ r.event # ""

\* Lines 85 to 155: the store writes of the switch are made whether or not
\* events are dispatched.
StoreWritesIfEvents(dispatchEvts, r) == IF dispatchEvts THEN r.writes ELSE <<>>

StoreWrites(dispatchEvts, r) == r.writes

DispatchAppState(mutation, dispatchEvts) ==
    IF ~Applies(mutation)
    THEN [panic |-> FALSE, evts |-> <<>>, writes |-> <<>>, logged |-> FALSE]
    ELSE LET generic == IF dispatchEvts THEN <<"AppState">> ELSE <<>>
         IN  IF Len(mutation.index) = 0
             THEN \* mutation.Index[0]: index out of range
                  [panic |-> TRUE, evts |-> generic, writes |-> <<>>, logged |-> FALSE]
             ELSE LET r == RouteMutation(mutation.index)
                  IN  [panic |-> FALSE,
                       evts |-> IF EmitsTyped(dispatchEvts, r)
                                THEN generic \o <<r.event>> ELSE generic,
                       writes |-> StoreWrites(dispatchEvts, r),
                       logged |-> StoreWriteFailed(StoreWrites(dispatchEvts, r))]

(***************************************************************************)
(* FetchAppState(name, fullSync, onlyIfNotSynced), call c.                  *)
(***************************************************************************)
NoDispatch == [caller |-> 0, mutation |-> [op |-> "", index |-> <<>>],
               dispatchEvts |-> FALSE, evts |-> <<>>, writes |-> <<>>,
               logged |-> FALSE, panic |-> FALSE]

AppInit ==
    /\ emitOnFullSync \in BOOLEAN
    /\ wired \in {{}, {"ChatSettings", "Contacts"}}
    /\ storeFails \in BOOLEAN
    /\ appStore \in {[n \in Names |-> st] : st \in {EmptyState, [version |-> 1, hash |-> 1]}}
    /\ appStateSyncLock = 0
    /\ fetchPc = [c \in FetchCalls |-> "idle"]
    /\ fetchArgs = [c \in FetchCalls |->
                      [name |-> "", fullSync |-> FALSE, onlyIfNotSynced |-> FALSE]]
    /\ fetchFull = [c \in FetchCalls |-> FALSE]
    /\ fetchRead = [c \in FetchCalls |-> NotRead]
    /\ fetchIQs = [c \in FetchCalls |-> 0]
    /\ fetchState = [c \in FetchCalls |-> EmptyState]
    /\ fetchHasMore = [c \in FetchCalls |-> FALSE]
    /\ fetchPending = [c \in FetchCalls |-> <<>>]
    /\ fetchBatches = [c \in FetchCalls |-> 0]
    /\ fetchResult = [c \in FetchCalls |-> "none"]
    /\ fetchEvtCount = [c \in FetchCalls |-> 0]
    /\ fetchComplete = [c \in FetchCalls |-> 0]
    /\ fetchBefore = [c \in FetchCalls |-> EmptyState]
    /\ fetchVerified = [c \in FetchCalls |-> 0]
    /\ fetchFailed = [c \in FetchCalls |-> <<>>]
    /\ fetchAfter = [c \in FetchCalls |-> EmptyState]
    /\ lastDispatch = NoDispatch

\* cli.appStateSyncLock.Lock() returns when the mutex is free.
MutexIgnored == TRUE

MutexFree == appStateSyncLock = 0

\* dispatchEvts as FetchAppState passes it: !fullSync || EmitAppStateEventsOnFullSync
DispatchEvtsAlways(fullSync) == TRUE

DispatchEvts(fullSync) == ~fullSync \/ emitOnFullSync

\* The persisted state FetchAppState leaves when DecodePatches fails: it
\* returns the error and does not touch the store.
StoreOnDecodeError(stored) == stored

\* Line 30: the Unlock deferred at entry runs on every return.
NoDeferredUnlock(c) == c

DeferredUnlock(c) == 0

\* A return of call c with result res: the deferred Unlock runs. st is the
\* store as the call leaves it.
Return(c, res, st) ==
    /\ fetchPc' = [fetchPc EXCEPT ![c] = "done"]
    /\ fetchResult' = [fetchResult EXCEPT ![c] = res]
    /\ appStateSyncLock' = DeferredUnlock(c)
    /\ appStore' = st
    /\ fetchAfter' = [fetchAfter EXCEPT ![c] = st[fetchArgs[c].name]]

\* The call is made and blocks in Lock().
FetchCall(c, name, fullSync, onlyIfNotSynced) ==
    /\ ~Crashed
    /\ fetchPc[c] = "idle"
    /\ \A d \in FetchCalls : d < c => fetchPc[d] # "idle"
    /\ fetchPc' = [fetchPc EXCEPT ![c] = "blocked"]
    /\ fetchArgs' = [fetchArgs EXCEPT ![c] =
           [name |-> name, fullSync |-> fullSync, onlyIfNotSynced |-> onlyIfNotSynced]]
    /\ fetchFull' = [fetchFull EXCEPT ![c] = fullSync]
    /\ UNCHANGED <<emitOnFullSync, wired, storeFails, appStore, appStateSyncLock, fetchState,
                   fetchRead, fetchIQs, fetchHasMore, fetchPending, fetchBatches, fetchResult,
                   fetchEvtCount, fetchComplete, fetchBefore, fetchVerified, fetchFailed,
                   fetchAfter, lastDispatch>>
    /\ UNCHANGED dispVars

\* Lock() returns.
FetchLock(c) ==
    /\ ~Crashed
    /\ fetchPc[c] = "blocked"
    /\ MutexFree
    /\ appStateSyncLock' = c
    /\ fetchPc' = [fetchPc EXCEPT ![c] = "locked"]
    /\ UNCHANGED <<emitOnFullSync, wired, storeFails, appStore, fetchArgs, fetchFull, fetchState,
                   fetchRead, fetchIQs, fetchHasMore, fetchPending, fetchBatches, fetchResult,
                   fetchEvtCount, fetchComplete, fetchBefore, fetchVerified, fetchFailed,
                   fetchAfter, lastDispatch>>
    /\ UNCHANGED dispVars

\* Lines 41 to 42: a collection never synced is synced in full.
FullSyncAsAsked(fullSync, version) == fullSync

FullSyncAfterRead(fullSync, version) == fullSync \/ version = 0

\* Lines 41 to 45: a collection already synced is left alone when the
\* caller asked for that.
SkipSyncNever(version, onlyIfNotSynced) == FALSE

SkipSync(version, onlyIfNotSynced) == version # 0 /\ onlyIfNotSynced

\* Lines 31 to 47: delete on fullSync, read the version, decide.
FetchBegin(c) ==
    /\ ~Crashed
    /\ fetchPc[c] = "locked"
    /\ \E deleteErr, getErr \in BOOLEAN :
         LET a == fetchArgs[c]
             st == IF a.fullSync THEN [appStore EXCEPT ![a.name] = EmptyState]
                   ELSE appStore
             state == st[a.name]
         IN  IF a.fullSync /\ deleteErr
             THEN /\ Return(c, "deleteError", appStore)
                  /\ UNCHANGED <<fetchFull, fetchRead, fetchState, fetchHasMore>>
             ELSE IF getErr
             THEN /\ Return(c, "getError", st)
                  /\ UNCHANGED <<fetchFull, fetchRead, fetchState, fetchHasMore>>
             ELSE IF SkipSync(state.version, a.onlyIfNotSynced)
             THEN /\ Return(c, "skipped", st)
                  /\ fetchRead' = [fetchRead EXCEPT ![c] = state]
                  /\ UNCHANGED <<fetchFull, fetchState, fetchHasMore>>
             ELSE /\ fetchFull' = [fetchFull EXCEPT ![c] =
                                      FullSyncAfterRead(a.fullSync, state.version)]
                  /\ fetchRead' = [fetchRead EXCEPT ![c] = state]
                  /\ fetchState' = [fetchState EXCEPT ![c] = state]
                  /\ fetchHasMore' = [fetchHasMore EXCEPT ![c] = TRUE]
                  /\ fetchPc' = [fetchPc EXCEPT ![c] = "fetch"]
                  /\ appStore' = st
                  /\ UNCHANGED <<appStateSyncLock, fetchResult, fetchAfter>>
    /\ UNCHANGED <<emitOnFullSync, wired, storeFails, fetchArgs, fetchPending, fetchBatches,
                   fetchIQs, fetchEvtCount, fetchComplete, fetchBefore, fetchVerified, fetchFailed,
                   lastDispatch>>
    /\ UNCHANGED dispVars

\* Lines 55 to 58: when DecodePatches returns an error the call returns,
\* and none of the mutations it decoded is dispatched.
DispatchedDespiteDecodeError(mutations) == mutations

DispatchedOnDecodeError(mutations) == <<>>

\* Lines 49 and 178: fetchAppStatePatches calls sendIQ, which generates a
\* stanza id, registers a waiter, sends the node on cli.socket and waits.
\* On a closed socket the write fails and the error is returned. With no
\* socket, SendFrame is called on nil: the error is returned, or the
\* process ends (the deferred Unlock runs first).
FetchSendIQ(c) ==
    /\ ~Crashed
    /\ fetchPc[c] = "fetch"
    /\ fetchIQs' = [fetchIQs EXCEPT ![c] = @ + 1]
    /\ idCounter' = GenerateRequestID
    /\ IF SocketOpen
       THEN /\ responseWaiters' =
                   WaitersWith(GenerateRequestID,
                               [caller |-> FetchCaller(c), session |-> socket])
            /\ iqID' = [iqID EXCEPT ![FetchCaller(c)] = GenerateRequestID]
            /\ iqPc' = [iqPc EXCEPT ![FetchCaller(c)] = "waiting"]
            /\ fetchPc' = [fetchPc EXCEPT ![c] = "waiting"]
            /\ UNCHANGED <<fetchResult, appStateSyncLock, appStore, fetchAfter, panicked>>
       ELSE IF socket # 0
       THEN \* the write fails
            /\ Return(c, "fetchError", appStore)
            /\ UNCHANGED <<responseWaiters, iqID, iqPc, panicked>>
       ELSE /\ UNCHANGED <<responseWaiters, iqID, iqPc>>
            /\ \E outcome \in NilReceiverOutcomes :
                  IF outcome = "panic"
                  THEN /\ panicked' = TRUE
                       /\ Return(c, "sendPanic", appStore)
                  ELSE /\ Return(c, "fetchError", appStore)
                       /\ UNCHANGED panicked
    /\ UNCHANGED <<emitOnFullSync, wired, storeFails, fetchArgs, fetchFull, fetchRead,
                   fetchState, fetchHasMore, fetchPending, fetchBatches,
                   fetchEvtCount, fetchComplete, fetchBefore, fetchVerified, fetchFailed,
                   lastDispatch>>
    /\ UNCHANGED <<sendVars, iqGot>>

\* sendIQ gives up (no response within the timeout): the waiter is removed
\* and the error returned (lines 194 to 196, then 50 to 52).
FetchIQTimeout(c) ==
    /\ ~Crashed
    /\ fetchPc[c] = "waiting"
    /\ iqPc[FetchCaller(c)] = "waiting"
    /\ responseWaiters' = WaitersWithout(iqID[FetchCaller(c)])
    /\ iqPc' = [iqPc EXCEPT ![FetchCaller(c)] = "idle"]
    /\ iqID' = [iqID EXCEPT ![FetchCaller(c)] = 0]
    /\ Return(c, "fetchError", appStore)
    /\ UNCHANGED <<emitOnFullSync, wired, storeFails, fetchArgs, fetchFull, fetchRead,
                   fetchIQs, fetchState, fetchHasMore, fetchPending, fetchBatches,
                   fetchEvtCount, fetchComplete, fetchBefore, fetchVerified, fetchFailed,
                   lastDispatch>>
    /\ UNCHANGED <<frameVars, idCounter, iqGot>>

\* Lines 49 to 59, once the response has been delivered: the rest of one
\* round of the loop up to "state = newState". The server's answer is an
\* error or a patch list; the last list it may send has has_more = false.
FetchPatches(c, lists) ==
    /\ ~Crashed
    /\ fetchPc[c] = "waiting"
    /\ iqPc[FetchCaller(c)] = "got"
    /\ iqPc' = [iqPc EXCEPT ![FetchCaller(c)] = "idle"]
    /\ iqID' = [iqID EXCEPT ![FetchCaller(c)] = 0]
    /\ iqGot' = [iqGot EXCEPT ![FetchCaller(c)] = {}]
    /\ fetchBefore' = [fetchBefore EXCEPT ![c] = appStore[fetchArgs[c].name]]
    /\ \E fetchErr \in BOOLEAN, patches \in lists, more \in BOOLEAN :
         LET name == fetchArgs[c].name
             r == DecodePatches(patches, fetchState[c], appStore[name])
         IN  IF fetchErr
             THEN /\ Return(c, "fetchError", appStore)
                  /\ UNCHANGED <<fetchState, fetchHasMore, fetchPending, fetchBatches,
                                 fetchVerified, fetchFailed>>
             ELSE IF r.err
             THEN /\ Return(c, "decodeError",
                            [appStore EXCEPT ![name] = StoreOnDecodeError(r.stored)])
                  /\ fetchHasMore' = [fetchHasMore EXCEPT ![c] = more]
                  /\ fetchVerified' = [fetchVerified EXCEPT ![c] = r.verified]
                  /\ fetchFailed' = [fetchFailed EXCEPT ![c] = patches]
                  /\ fetchPending' = [fetchPending EXCEPT ![c] =
                                         DispatchedOnDecodeError(r.mutations)]
                  /\ UNCHANGED <<fetchState, fetchBatches>>
             ELSE /\ more => fetchBatches[c] + 1 < MaxBatches
                  /\ fetchHasMore' = [fetchHasMore EXCEPT ![c] = more]
                  /\ fetchState' = [fetchState EXCEPT ![c] = r.state]
                  /\ fetchPending' = [fetchPending EXCEPT ![c] = r.mutations]
                  /\ fetchBatches' = [fetchBatches EXCEPT ![c] = @ + 1]
                  /\ fetchVerified' = [fetchVerified EXCEPT ![c] = r.verified]
                  /\ UNCHANGED fetchFailed
                  /\ appStore' = [appStore EXCEPT ![name] = r.stored]
                  /\ fetchPc' = [fetchPc EXCEPT ![c] = "dispatch"]
                  /\ UNCHANGED <<appStateSyncLock, fetchResult, fetchAfter>>
    /\ UNCHANGED <<emitOnFullSync, wired, storeFails, fetchArgs, fetchFull, fetchRead,
                   fetchIQs, fetchEvtCount, fetchComplete, lastDispatch>>
    /\ UNCHANGED <<frameVars, responseWaiters, idCounter>>

\* Lines 60 to 62: one iteration of the loop over the batch's mutations.
FetchDispatch(c) ==
    /\ ~Crashed
    /\ fetchPc[c] = "dispatch"
    /\ fetchPending[c] # <<>>
    /\ LET m == Head(fetchPending[c])
           on == DispatchEvts(fetchFull[c])
           d == DispatchAppState(m, on)
       IN  /\ lastDispatch' = [caller |-> c, mutation |-> m, dispatchEvts |-> on,
                               evts |-> d.evts, writes |-> d.writes,
                               logged |-> d.logged, panic |-> d.panic]
           /\ fetchEvtCount' = [fetchEvtCount EXCEPT ![c] = @ + Len(d.evts)]
           /\ fetchPending' = [fetchPending EXCEPT ![c] = Tail(@)]
           /\ IF d.panic
              THEN Return(c, "panic", appStore)
              ELSE UNCHANGED <<fetchPc, fetchResult, appStateSyncLock, appStore,
                               fetchAfter>>
    /\ UNCHANGED <<emitOnFullSync, wired, storeFails, fetchArgs, fetchFull, fetchRead,
                   fetchIQs, fetchState, fetchHasMore, fetchBatches, fetchComplete,
                   fetchBefore, fetchVerified, fetchFailed>>
    /\ UNCHANGED dispVars

\* Lines 48 and 64 to 66: AppStateSyncComplete is emitted after the loop
\* has ended, when the sync was a full one.
SyncCompleteEachBatch(hasMore, fullSync) == fullSync

SyncCompleteDue(hasMore, fullSync) == ~hasMore /\ fullSync

\* The batch is dispatched: loop while hasMore, else lines 64 to 67.
\* (lastDispatch is a record of the loop over the batch and ends with it.)
FetchNext(c) ==
    /\ ~Crashed
    /\ fetchPc[c] = "dispatch"
    /\ fetchPending[c] = <<>>
    /\ lastDispatch' = NoDispatch
    /\ fetchComplete' = [fetchComplete EXCEPT ![c] =
                            IF SyncCompleteDue(fetchHasMore[c], fetchFull[c])
                            THEN @ + 1 ELSE @]
    /\ IF fetchHasMore[c]
       THEN /\ fetchPc' = [fetchPc EXCEPT ![c] = "fetch"]
            /\ UNCHANGED <<fetchResult, appStateSyncLock, appStore, fetchAfter>>
       ELSE Return(c, "ok", appStore)
    /\ UNCHANGED <<emitOnFullSync, wired, storeFails, fetchArgs, fetchFull, fetchRead,
                   fetchIQs, fetchState, fetchHasMore, fetchPending, fetchBatches,
                   fetchEvtCount, fetchBefore, fetchVerified, fetchFailed>>
    /\ UNCHANGED dispVars

\* The server's answer to an outstanding request, on the connection the
\* request was sent on.
ResponseFrame ==
    \E id \in DOMAIN responseWaiters :
        HandleFrame(responseWaiters[id].session, "iq", id)

\* One Connect call, Disconnect, the answers to the IQs and one
\* FetchAppState call with every patch list.
AppNext ==
    \/ ConnectHandshake(1)
    \/ ConnectSetOnFrame(1)
    \/ ConnectStartKeepAlive(1)
    \/ ConnectStartConsumer(1)
    \/ DisconnectTest(1)
    \/ DisconnectClose(1)
    \/ DisconnectSetNil(1)
    \/ ResponseFrame
    \/ \E name \in Names, fullSync, only \in BOOLEAN : FetchCall(1, name, fullSync, only)
    \/ FetchLock(1)
    \/ FetchBegin(1)
    \/ FetchSendIQ(1)
    \/ FetchIQTimeout(1)
    \/ FetchPatches(1, PatchLists)
    \/ FetchDispatch(1)
    \/ FetchNext(1)

\* The collections of concurrent calls: the names are interchangeable, so
\* the first call is given one of them and the later ones any.
ConcNames(c) == IF c = 1 THEN {"regular"} ELSE Names

\* Concurrent calls, each on its goroutine, with small patch lists.
ConcNext ==
    \/ ConnectHandshake(1)
    \/ ConnectSetOnFrame(1)
    \/ ConnectStartKeepAlive(1)
    \/ ConnectStartConsumer(1)
    \/ DisconnectTest(1)
    \/ DisconnectClose(1)
    \/ DisconnectSetNil(1)
    \/ ResponseFrame
    \/ \E c \in FetchCalls : FetchSendIQ(c)
    \/ \E c \in FetchCalls : FetchIQTimeout(c)
    \/ \E c \in FetchCalls : \E name \in ConcNames(c), fullSync, only \in BOOLEAN :
          FetchCall(c, name, fullSync, only)
    \/ \E c \in FetchCalls : FetchLock(c)
    \/ \E c \in FetchCalls : FetchBegin(c)
    \/ \E c \in FetchCalls : FetchPatches(c, SmallPatchLists)
    \/ \E c \in FetchCalls : FetchDispatch(c)
    \/ \E c \in FetchCalls : FetchNext(c)

(***************************************************************************)
(* dispatchAppState on its own: applied to every kind of mutation, with     *)
(* every index length, both operations and events on or off.                *)
(***************************************************************************)
RouteKinds ==
    {"mute", "pin_v1", "archive", "contact", "star", "deleteMessageForMe",
     "setting_pushName", "setting_unarchiveChats", "unknown"}

\* An index of the given length: the kind, the chat, the message id, the
\* fromMe flag, the sender.
IndexOf(kind, len) ==
    [i \in 1..len |-> CASE i = 1 -> kind
                         [] i = 2 -> "chat"
                         [] i = 3 -> "msg"
                         [] i = 4 -> "1"
                         [] OTHER -> "0"]

RouteMutations ==
    {[op |-> o, index |-> IndexOf(k, n)] :
        o \in {"SET", "REMOVE"}, k \in RouteKinds, n \in 0..MaxIndexLen}

RouteApply(mutation, dispatchEvts) ==
    /\ ~lastDispatch.panic
    /\ LET d == DispatchAppState(mutation, dispatchEvts)
       IN  lastDispatch' = [caller |-> 0, mutation |-> mutation,
                            dispatchEvts |-> dispatchEvts, evts |-> d.evts,
                            writes |-> d.writes, logged |-> d.logged,
                            panic |-> d.panic]
    /\ UNCHANGED <<emitOnFullSync, wired, storeFails, appStore, appStateSyncLock,
                   fetchPc, fetchArgs, fetchFull, fetchRead, fetchIQs, fetchState,
                   fetchHasMore, fetchPending, fetchBatches, fetchResult,
                   fetchEvtCount, fetchComplete, fetchBefore, fetchVerified, fetchFailed,
                   fetchAfter>>
    /\ UNCHANGED dispVars

RouteNext ==
    \E mutation \in RouteMutations, dispatchEvts \in BOOLEAN :
        RouteApply(mutation, dispatchEvts)

\* The app-state sync at rest, for the behaviours of the dispatcher.
AppIdle ==
    /\ AppInit
    /\ emitOnFullSync = FALSE
    /\ wired = {"ChatSettings", "Contacts"}
    /\ storeFails = FALSE
    /\ appStore = [n \in Names |-> EmptyState]

Init == DispInit /\ AppIdle

\* Repeated Connect calls, a Disconnect call, the inbound frames and the
\* goroutines of the sessions.
Next ==
    \/ \E k \in Sessions : ConnectHandshake(k)
    \/ \E k \in Sessions : ConnectSetOnFrame(k)
    \/ \E k \in Sessions : ConnectStartKeepAlive(k)
    \/ \E k \in Sessions : ConnectStartConsumer(k)
    \/ DisconnectTest(1)
    \/ DisconnectClose(1)
    \/ DisconnectSetNil(1)
    \/ \E s \in Sessions, tag \in Tags, id \in NodeIDs : HandleFrame(s, tag, id)
    \/ \E n \in 1..MaxFrames : OverflowSend(n)
    \/ \E s \in Sessions : ConsumerReceive(s)
    \/ \E s \in Sessions : ConsumerInvoke(s)
    \/ \E s \in Sessions : ConsumerReturn(s)
    \/ \E s \in Sessions : ConsumerExit(s)
    \/ \E s \in Sessions : KeepAliveExit(s)

\* One Connect call, concurrent Disconnect calls and every caller of sendIQ.
IQNext ==
    \/ ConnectHandshake(1)
    \/ ConnectSetOnFrame(1)
    \/ ConnectStartKeepAlive(1)
    \/ ConnectStartConsumer(1)
    \/ \E d \in Disconnectors : DisconnectTest(d)
    \/ \E d \in Disconnectors : DisconnectClose(d)
    \/ \E d \in Disconnectors : DisconnectSetNil(d)
    \/ \E tag \in Tags, id \in NodeIDs : HandleFrame(1, tag, id)
    \/ \E n \in 1..MaxFrames : OverflowSend(n)
    \/ ConsumerReceive(1)
    \/ ConsumerInvoke(1)
    \/ ConsumerReturn(1)
    \/ ConsumerExit(1)
    \/ KeepAliveExit(1)
    \/ \E c \in Callers : SendIQ(c)
    \/ \E c \in Callers : CancelIQ(c)

vars == <<dispVars, appVars>>

Spec == Init /\ [][Next]_vars

IQSpec == Init /\ [][IQNext]_vars

AppStart == DispInit /\ AppInit

AppSpec == AppStart /\ [][AppNext]_vars

\* Concurrent calls are explored with the flag off, every sub-store wired
\* and every collection synced once before.
ConcStart ==
    /\ AppStart
    /\ emitOnFullSync = FALSE
    /\ wired = {"ChatSettings", "Contacts"}
    /\ storeFails = FALSE
    /\ appStore = [n \in Names |-> [version |-> 1, hash |-> 1]]

ConcSpec == ConcStart /\ [][ConcNext]_vars

\* The scheduler's fairness for the calls: a call that can take its next
\* step takes it (Lock() returns once the mutex is free, the store and the
\* server answer, an IQ without answer times out). Making a call is the
\* host's choice.
ConcFairness ==
    \A c \in FetchCalls :
        /\ WF_vars(FetchLock(c))
        /\ WF_vars(FetchBegin(c))
        /\ WF_vars(FetchSendIQ(c))
        /\ WF_vars(FetchPatches(c, SmallPatchLists) \/ FetchIQTimeout(c))
        /\ WF_vars(FetchDispatch(c))
        /\ WF_vars(FetchNext(c))

ConcLiveSpec == ConcStart /\ [][ConcNext]_vars /\ ConcFairness

RouteStart == DispInit /\ AppInit

RouteSpec == RouteStart /\ [][RouteNext]_vars

(***************************************************************************)
(* The scheduler's fairness: a goroutine that can take a step takes one.    *)
(* A consumer at its select takes one of the ready cases; a handler that    *)
(* was entered returns; a Connect call whose handshake is done goes on to   *)
(* its next line, and so does a Disconnect call past its test. Calling      *)
(* Connect and Disconnect and the inbound frames are the host's and the     *)
(* server's choices and are under no fairness.                              *)
(***************************************************************************)
Fairness ==
    /\ \A k \in Sessions : WF_vars(ConnectSetOnFrame(k))
    /\ \A k \in Sessions : WF_vars(ConnectStartKeepAlive(k))
    /\ \A k \in Sessions : WF_vars(ConnectStartConsumer(k))
    /\ \A d \in Disconnectors : WF_vars(DisconnectClose(d))
    /\ \A d \in Disconnectors : WF_vars(DisconnectSetNil(d))
    /\ \A s \in Sessions : WF_vars(ConsumerReceive(s) \/ ConsumerExit(s))
    /\ \A s \in Sessions : WF_vars(ConsumerInvoke(s))
    /\ \A s \in Sessions : WF_vars(ConsumerReturn(s))
    /\ \A s \in Sessions : WF_vars(KeepAliveExit(s))
    /\ \A n \in 1..MaxFrames : WF_vars(OverflowSend(n))

LiveSpec == Init /\ [][Next]_vars /\ Fairness

(***************************************************************************)
(* Helpers for the properties.                                             *)
(***************************************************************************)
Range(q) == {q[i] : i \in DOMAIN q}

\* Nodes handed to a response waiter.
DeliveredNodes == UNION {iqGot[c] : c \in AllCallers}

\* Nodes enqueued for, held for or passed to a tag handler.
HandlerNodes ==
    spawned \cup Range(sendq) \cup Range(handlerQueue) \cup Range(handled)
    \cup {consumerNode[s] : s \in {t \in Sessions : consumerNode[t] # 0}}

\* Consumers that have been started and have not returned.
LiveConsumers == {s \in Sessions : consumerPc[s] \in {"select", "received", "handling"}}

(***************************************************************************)
(* C1: if the handler queue never reaches its capacity, tag handlers are    *)
(* invoked in receive order (node numbers are receive order).               *)
(* Stated as written; violated once two consumers run (see C10).            *)
(***************************************************************************)
C1_FifoUnderNonOverflow ==
    ~reachedCapacity =>
        \A i, j \in DOMAIN handled : i < j => handled[i] < handled[j]

(***************************************************************************)
(* C2: every decoded inbound node is disposed of in exactly one way, in     *)
(* the order stream-end, response waiter, tag handler, drop; a node         *)
(* delivered to a response waiter is never enqueued for or passed to a tag  *)
(* handler.                                                                 *)
(***************************************************************************)
C2_ExactlyOneDisposal ==
    /\ nReceived > 0 =>
         LET f == lastFrame
             end == f.tag = "xmlstreamend"
         IN  /\ Cardinality(f.disp) = 1
             /\ ("streamend" \in f.disp) <=> end
             /\ ("waiter" \in f.disp) <=> (~end /\ f.hadWaiter)
             /\ (f.disp \cap {"queued", "overflow"} # {})
                    <=> (~end /\ ~f.hadWaiter /\ f.tag \in nodeHandlers)
             /\ ("dropped" \in f.disp)
                    <=> (~end /\ ~f.hadWaiter /\ f.tag \notin nodeHandlers)
    /\ DeliveredNodes \cap HandlerNodes = {}

\* An "iq" node (a tag of the handler table) went to a waiter, after another
\* node had been passed to its tag handler.
C2_Witness ==
    /\ lastFrame.tag = "iq"
    /\ lastFrame.disp = {"waiter"}
    /\ nReceived \in DeliveredNodes
    /\ Len(handled) > 0

(***************************************************************************)
(* C3: at most one waiter per stanza id; a response for a stanza id is      *)
(* delivered to at most one caller and at most once; delivery removes the   *)
(* waiter, so a second node with the same id is not delivered to it.        *)
(***************************************************************************)
C3_WaiterExclusivity ==
    /\ \A c \in AllCallers : Cardinality(iqGot[c]) <= 1
    /\ \A c, d \in AllCallers :
          c # d => /\ iqGot[c] \cap iqGot[d] = {}
                   /\ (iqID[c] # 0 => iqID[c] # iqID[d])
    /\ \A c \in AllCallers : iqGot[c] # {} => iqID[c] \notin DOMAIN responseWaiters
    /\ \A id \in DOMAIN responseWaiters :
          /\ iqID[responseWaiters[id].caller] = id
          /\ iqPc[responseWaiters[id].caller] = "waiting"

\* A second node carrying the id of an already delivered response arrived
\* and was not delivered, while another caller is still waiting.
C3_Witness ==
    \E c, d \in AllCallers :
        /\ iqGot[c] # {}
        /\ lastFrame.id = iqID[c]
        /\ nReceived \notin iqGot[c]
        /\ iqPc[d] = "waiting"

(***************************************************************************)
(* C7: every node of a handled tag received while the handler queue is      *)
(* full (handed to a detached sender) is eventually passed to its tag       *)
(* handler. Stated as written; checked under LiveSpec.                      *)
(***************************************************************************)
C7_OverflowEventuallyHandled ==
    \A n \in 1..MaxFrames :
        (n \in spawned) ~> (n \in Range(handled))

(***************************************************************************)
(* C8: Disconnect has returned only when the background tasks of the        *)
(* session it closed have returned. Stated as written.                      *)
(***************************************************************************)
C8_DisconnectWaitsForTasks ==
    \A k \in Sessions :
        /\ consumerCtx[k] \in disconnected => consumerPc[k] = "done"
        /\ keepAliveCtx[k] \in disconnected => keepAlivePc[k] = "done"

(***************************************************************************)
(* C9: after the socket of a session is closed, no waiter registered during *)
(* that session remains in the waiter table. Stated as written.             *)
(***************************************************************************)
C9_WaitersFailedOnClose ==
    \A id \in DOMAIN responseWaiters : responseWaiters[id].session \notin ctxDone

(***************************************************************************)
(* C10: across Connect and Disconnect calls a single consumer reads the     *)
(* handler queue and at most one tag handler invocation is in progress.     *)
(* Stated as written.                                                       *)
(***************************************************************************)
C10_SingleConsumer ==
    Cardinality({s \in Sessions : consumerPc[s] = "handling"}) <= 1

FirstFailing(patches) ==
    CHOOSE i \in DOMAIN patches :
        /\ ~VerifyPatch(patches[i])
        /\ \A j \in 1..(i - 1) : VerifyPatch(patches[j])

\* The HashState the first k patches of a list lead to, from state.
RECURSIVE HashStateAfter(_, _, _)
HashStateAfter(state, patches, k) ==
    IF k = 0 THEN state
    ELSE NextHashState(HashStateAfter(state, patches, k - 1), patches[k])

C5_FullSyncSilence ==
    \A c \in FetchCalls :
        (fetchArgs[c].fullSync /\ ~emitOnFullSync) =>
            /\ fetchEvtCount[c] = 0
            /\ lastDispatch.caller = c => lastDispatch.evts = <<>>
            /\ fetchResult[c] = "ok" => fetchComplete[c] = 1

\* A silent full sync in its second batch that has just applied a SET mute
\* mutation (whose store write was made), and one that has completed.
C5_Witness ==
    \E c \in FetchCalls :
        /\ fetchArgs[c].fullSync /\ ~emitOnFullSync
        /\ fetchBatches[c] = 2
        /\ lastDispatch.caller = c
        /\ lastDispatch.mutation = [op |-> "SET", index |-> <<"mute", "jid">>]
        /\ lastDispatch.writes = <<"PutMutedUntil">>
        /\ fetchPending[c] = <<>>

(***************************************************************************)
(* C6: at most one app-state sync is in progress at any time, for the same  *)
(* or different collection names: no two calls are between Lock() and       *)
(* their return.                                                            *)
(***************************************************************************)
InSync(c) == fetchPc[c] \in {"locked", "fetch", "waiting", "dispatch"}

C6_OneSyncAtATime ==
    /\ Cardinality({c \in FetchCalls : InSync(c)}) <= 1
    /\ \A c \in FetchCalls : InSync(c) <=> appStateSyncLock = c

\* A call is dispatching a batch while a call on another collection is
\* blocked in Lock().
C6_Witness ==
    \E c, d \in FetchCalls :
        /\ fetchPc[c] = "dispatch"
        /\ fetchPc[d] = "blocked"
        /\ fetchArgs[c].name # fetchArgs[d].name

(***************************************************************************)
(* Helpers for the properties of dispatchAppState.                          *)
(***************************************************************************)
\* The typed events among the emitted ones (AppState is the generic one).
TypedEvents(evts) == SelectSeq(evts, LAMBDA e : e # "AppState")

\* The last mutation applied is a SET mutation with this kind of index.
LastIsSet == lastDispatch.mutation.op = "SET" /\ Len(lastDispatch.mutation.index) > 0

LastKind == lastDispatch.mutation.index[1]

LastIsShortStar ==
    /\ LastIsSet
    /\ LastKind \in {"star", "deleteMessageForMe"}
    /\ Len(lastDispatch.mutation.index) < 5

\* The routing table of the specification (4.F): index[0] -> typed event
\* and store writes.
RoutingTable ==
    [k \in RouteKinds \ {"unknown"} |->
        CASE k = "mute" -> [event |-> "Mute", writes |-> <<"PutMutedUntil">>]
          [] k = "pin_v1" -> [event |-> "Pin", writes |-> <<"PutPinned">>]
          [] k = "archive" -> [event |-> "Archive", writes |-> <<"PutArchived">>]
          [] k = "contact" -> [event |-> "Contact", writes |-> <<"PutContactName">>]
          [] k = "star" -> [event |-> "Star", writes |-> <<>>]
          [] k = "deleteMessageForMe" -> [event |-> "DeleteForMe", writes |-> <<>>]
          [] k = "setting_pushName" ->
                [event |-> "PushNameSetting", writes |-> <<"PushName", "Save">>]
          [] k = "setting_unarchiveChats" ->
                [event |-> "UnarchiveChatsSetting", writes |-> <<>>]]

AllWired == wired = {"ChatSettings", "Contacts"}

(***************************************************************************)
(* C11: a SET mutation whose index[0] is star or deleteMessageForMe and     *)
(* whose index has fewer than 5 elements is silently discarded: no event    *)
(* is emitted, no store write is made and nothing fails, also with          *)
(* per-mutation events enabled. Stated as written.                          *)
(***************************************************************************)
C11_ShortIndexDiscarded ==
    LastIsShortStar =>
        /\ lastDispatch.evts = <<>>
        /\ lastDispatch.writes = <<>>
        /\ ~lastDispatch.panic

(***************************************************************************)
(* C12 as written: for every SET mutation applied with events enabled and   *)
(* all sub-stores wired, index[0] determines the typed event and the store  *)
(* writes as the routing table says: exactly one typed event, and no other  *)
(* store write.                                                             *)
(***************************************************************************)
C12_RoutingTableEverySet ==
    (LastIsSet /\ lastDispatch.dispatchEvts /\ AllWired /\ LastKind \in DOMAIN RoutingTable) =>
        /\ TypedEvents(lastDispatch.evts) = <<RoutingTable[LastKind].event>>
        /\ lastDispatch.writes = RoutingTable[LastKind].writes

(***************************************************************************)
(* C12 amended: the same, for the SET mutations that are not discarded,     *)
(* that is with an index of at least 5 elements when index[0] is star or    *)
(* deleteMessageForMe; the discarded ones get no typed event and no store   *)
(* write.                                                                   *)
(***************************************************************************)
C12_RoutingTable ==
    (LastIsSet /\ lastDispatch.dispatchEvts /\ AllWired /\ LastKind \in DOMAIN RoutingTable) =>
        IF LastIsShortStar
        THEN TypedEvents(lastDispatch.evts) = <<>> /\ lastDispatch.writes = <<>>
        ELSE /\ TypedEvents(lastDispatch.evts) = <<RoutingTable[LastKind].event>>
             /\ lastDispatch.writes = RoutingTable[LastKind].writes

\* A push-name mutation was applied with events on: the PushNameSetting
\* event after the generic one, PushName assigned and saved.
C12_Witness ==
    /\ LastIsSet /\ lastDispatch.dispatchEvts /\ AllWired
    /\ LastKind = "setting_pushName"
    /\ lastDispatch.evts = <<"AppState", "PushNameSetting">>
    /\ lastDispatch.writes = <<"PushName", "Save">>

(***************************************************************************)
(* C17: applying a REMOVE mutation emits no event (generic or typed) and    *)
(* makes no store write, whatever its index and whatever the event flag.    *)
(***************************************************************************)
C17_RemoveHasNoEffect ==
    lastDispatch.mutation.op = "REMOVE" =>
        /\ lastDispatch.evts = <<>>
        /\ lastDispatch.writes = <<>>
        /\ ~lastDispatch.logged
        /\ ~lastDispatch.panic

\* A REMOVE of a mute was applied with events on and the chat settings
\* store wired.
C17_Witness ==
    /\ lastDispatch.mutation = [op |-> "REMOVE", index |-> IndexOf("mute", 2)]
    /\ lastDispatch.dispatchEvts
    /\ AllWired
    /\ lastDispatch.evts = <<>>

(***************************************************************************)
(* C13: store-side problems never change the outcome of a sync. When the    *)
(* sub-store of a mutation's side effect is absent the write is skipped;    *)
(* when a store write returns an error it is only logged; in both cases     *)
(* the typed event is emitted (if events are enabled) and the call goes on  *)
(* with the remaining mutations and batches.                                *)
(***************************************************************************)
C13_StoreProblemsIgnored ==
    \A c \in FetchCalls :
        (lastDispatch.caller = c /\ LastIsSet /\ ~LastIsShortStar
            /\ LastKind \in DOMAIN RoutingTable) =>
            /\ TypedEvents(lastDispatch.evts) =
                   (IF lastDispatch.dispatchEvts
                    THEN <<RoutingTable[LastKind].event>> ELSE <<>>)
            /\ lastDispatch.writes \in {<<>>, RoutingTable[LastKind].writes}
            /\ (LastKind \in {"mute", "pin_v1", "archive"} /\ "ChatSettings" \notin wired)
                   => lastDispatch.writes = <<>>
            /\ lastDispatch.logged <=> (storeFails /\ lastDispatch.writes # <<>>)
            /\ fetchPc[c] = "dispatch"
            /\ fetchResult[c] = "none"

\* In the second batch of a call, PutMutedUntil returned an error: the Mute
\* event was emitted all the same and the batch has a mutation left to apply.
C13_Witness ==
    \E c \in FetchCalls :
        /\ storeFails
        /\ lastDispatch.caller = c
        /\ lastDispatch.logged
        /\ lastDispatch.writes = <<"PutMutedUntil">>
        /\ lastDispatch.evts = <<"AppState", "Mute">>
        /\ fetchBatches[c] = 2
        /\ fetchPending[c] # <<>>
        /\ fetchResult[c] = "none"

(***************************************************************************)
(* C16: whenever a call has emitted an event for a mutation or applied its  *)
(* store side effect, the batch containing the mutation had been decoded    *)
(* and verified and the sync state advanced past it; a batch whose fetch    *)
(* or verification fails contributes no event and no store write.           *)
(***************************************************************************)
C16_EffectsOnlyAfterVerifiedBatch ==
    \A c \in FetchCalls :
        /\ lastDispatch.caller = c =>
              /\ fetchBatches[c] >= 1
              /\ fetchState[c].version = fetchBefore[c].version + fetchVerified[c]
              /\ appStore[fetchArgs[c].name] = fetchState[c]
        /\ fetchResult[c] \in {"fetchError", "decodeError"} =>
              /\ fetchPending[c] = <<>>
              /\ lastDispatch.caller # c
        /\ fetchBatches[c] = 0 => fetchEvtCount[c] = 0

\* An incremental sync (events enabled) whose first batch failed at its
\* second patch: the first patch was verified, and no event was emitted.
C16_Witness ==
    \E c \in FetchCalls :
        /\ fetchResult[c] = "decodeError"
        /\ ~fetchFull[c]
        /\ fetchBatches[c] = 0
        /\ fetchVerified[c] = 1
        /\ fetchEvtCount[c] = 0

(***************************************************************************)
(* C18: AppStateSyncComplete is terminal: a call emits it at most once,     *)
(* only after every mutation of all its batches has been applied (after     *)
(* has_more became false), and never when it returns an error.              *)
(***************************************************************************)
C18_SyncCompleteTerminal ==
    \A c \in FetchCalls :
        /\ fetchComplete[c] <= 1
        /\ fetchComplete[c] = 1 =>
              /\ fetchResult[c] = "ok"
              /\ fetchPending[c] = <<>>
              /\ ~fetchHasMore[c]
        /\ fetchResult[c] \notin {"none", "ok"} => fetchComplete[c] = 0

\* A full sync with per-mutation events enabled completed after two batches
\* and emitted AppStateSyncComplete after its mutation events.
C18_Witness ==
    \E c \in FetchCalls :
        /\ fetchComplete[c] = 1
        /\ fetchBatches[c] = 2
        /\ fetchEvtCount[c] > 0

(***************************************************************************)
(* C19: a call with fullSync = false on a collection whose stored version   *)
(* is 0 is treated as a full sync: per-mutation events are suppressed       *)
(* unless EmitAppStateEventsOnFullSync is true, and AppStateSyncComplete    *)
(* is emitted on success.                                                   *)
(***************************************************************************)
C19_NeverSyncedIsFullSync ==
    \A c \in FetchCalls :
        (~fetchArgs[c].fullSync /\ fetchRead[c].version = 0) =>
            /\ fetchFull[c]
            /\ lastDispatch.caller = c => lastDispatch.dispatchEvts = emitOnFullSync
            /\ ~emitOnFullSync => fetchEvtCount[c] = 0
            /\ fetchResult[c] = "ok" => fetchComplete[c] = 1

\* Such a call completed after two batches without a per-mutation event.
C19_Witness ==
    \E c \in FetchCalls :
        /\ ~fetchArgs[c].fullSync
        /\ fetchRead[c].version = 0
        /\ fetchResult[c] = "ok"
        /\ fetchBatches[c] = 2
        /\ fetchState[c].version > 0
        /\ fetchEvtCount[c] = 0
        /\ fetchComplete[c] = 1

(***************************************************************************)
(* C20: a call with onlyIfNotSynced = true and fullSync = false on a        *)
(* collection whose stored version is non-zero returns success without      *)
(* sending an IQ, emitting an event or changing the persisted (version,     *)
(* hash); with fullSync = true the persisted state is deleted first, so     *)
(* the sync is never skipped.                                               *)
(***************************************************************************)
C20_OnlyIfNotSyncedSkips ==
    \A c \in FetchCalls :
        /\ (fetchArgs[c].onlyIfNotSynced /\ ~fetchArgs[c].fullSync
                /\ fetchRead[c].version > 0) => fetchResult[c] = "skipped"
        /\ fetchResult[c] = "skipped" =>
              /\ fetchArgs[c].onlyIfNotSynced /\ ~fetchArgs[c].fullSync
              /\ fetchRead[c].version > 0
              /\ fetchIQs[c] = 0
              /\ fetchEvtCount[c] = 0
              /\ fetchComplete[c] = 0
              /\ fetchAfter[c] = fetchRead[c]
              /\ appStore[fetchArgs[c].name] = fetchRead[c]
        /\ fetchArgs[c].fullSync =>
              /\ fetchResult[c] # "skipped"
              /\ fetchRead[c] \in {NotRead, EmptyState}

\* A call on a synced collection was skipped and left its version in place.
C20_Witness ==
    \E c \in FetchCalls :
        /\ fetchResult[c] = "skipped"
        /\ fetchAfter[c].version = 1
        /\ fetchIQs[c] = 0

(***************************************************************************)
(* C14: a node is handed to a response waiter or to a tag handler only      *)
(* while a Noise session is established (a session whose handshake has      *)
(* succeeded and whose socket has not been closed): not after a             *)
(* Disconnect, during a reconnect, or for nodes an earlier session left in  *)
(* the handler queue. Stated as written.                                    *)
(***************************************************************************)
Established == (1..nSessions) \ ctxDone # {}

C14_DispatchOnlyWhenEstablished ==
    [][(handled' # handled \/ \E c \in AllCallers : iqGot[c] \subseteq iqGot'[c] /\ iqGot'[c] # iqGot[c])
          => Established]_vars

(***************************************************************************)
(* C15: once the session context is cancelled, the handler-queue consumer   *)
(* terminates at its next select: it takes no further node from the queue,  *)
(* also when the queue is not empty. Stated as written.                     *)
(***************************************************************************)
C15_ConsumerStopsOnCancel ==
    [][\A s \in Sessions :
          (consumerCtx[s] \in ctxDone /\ consumerPc[s] = "select")
              => consumerPc'[s] # "received"]_vars

(***************************************************************************)
(* C21: store side effects do not depend on event emission: for every SET   *)
(* mutation the store write of its kind is the same whether per-mutation    *)
(* events are enabled or suppressed (it depends on the index and on the     *)
(* sub-stores wired only).                                                  *)
(***************************************************************************)
\* The sub-store the write of a kind goes to ("" for the root fields).
SubStoreOf(kind) ==
    CASE kind \in {"mute", "pin_v1", "archive"} -> "ChatSettings"
      [] kind = "contact" -> "Contacts"
      [] OTHER -> ""

C21_WritesIndependentOfEvents ==
    (LastIsSet /\ ~LastIsShortStar /\ LastKind \in DOMAIN RoutingTable) =>
        lastDispatch.writes =
            (IF SubStoreOf(LastKind) \in wired \cup {""}
             THEN RoutingTable[LastKind].writes ELSE <<>>)

\* A contact mutation was applied with events suppressed: no event, and the
\* contact name was written.
C21_Witness ==
    /\ LastIsSet
    /\ LastKind = "contact"
    /\ ~lastDispatch.dispatchEvts
    /\ lastDispatch.evts = <<>>
    /\ lastDispatch.writes = <<"PutContactName">>

(***************************************************************************)
(* C22: applying a SET mutation completes without a run-time failure for    *)
(* every index length, an empty index included. Stated as written.          *)
(***************************************************************************)
C22_NoRuntimeFailure ==
    /\ ~lastDispatch.panic
    /\ \A c \in FetchCalls : fetchResult[c] # "panic"

(***************************************************************************)
(* C23: every return path of FetchAppState (success, the onlyIfNotSynced    *)
(* early return, each error return) releases the app-state sync lock, so a  *)
(* failed or skipped sync never blocks a later call; and a call that has    *)
(* been made returns once the server answers has_more = false (or the IQ    *)
(* fails), as long as the process runs.                                     *)
(***************************************************************************)
C23_LockReleasedOnReturn ==
    /\ [](\A c \in FetchCalls :
             fetchResult[c] # "none" => (fetchPc[c] = "done" /\ appStateSyncLock # c))
    /\ [](appStateSyncLock = 0 => \A c \in FetchCalls : ~InSync(c))
    /\ \A c \in FetchCalls : (fetchPc[c] = "blocked") ~> (fetchPc[c] = "done" \/ Crashed)

\* The first call failed in DecodePatches and the second, made while the
\* first held the lock, has taken the lock since and is dispatching.
C23_Witness ==
    /\ fetchResult[1] = "decodeError"
    /\ fetchPc[2] = "dispatch"
    /\ appStateSyncLock = 2

====
